---- MODULE Spec2Model ----
(***************************************************************************)
(* Model of the admin dashboard's realtime presence hook                   *)
(* (useGlobalPresence) and of the token store it shares with the API       *)
(* client.  Every browser task (effect commit, WebSocket event, timer      *)
(* fire, token-store write) is one atomic action: JavaScript runs each     *)
(* task to completion on a single thread.                                  *)
(***************************************************************************)
EXTENDS Integers, Sequences, FiniteSets, TLC

\* ---------------------------------------------------------------- bounds
\* number of writes (setItem / removeItem) the environment performs on the
\* auth_token key of localStorage
MaxWrites == 2

\* every effect run starts at most one chain of channels, and an effect
\* re-runs only after the token store changed
NumChannels == MaxWrites + 1

\* number of subscriptions (calls of onNewMessage, onMessageStatusUpdate,
\* onMatchStatusUpdate) the components make
MaxSubscriptions == 2

\* length of the keys handed to the case converters
MaxKeyLen == 4

\* the primitives of the JSON values handed to the key converters are the
\* numbers 0..MaxPrim and null
MaxPrim == 1

\* ------------------------------------------------------------ value sets
NoToken == "none"
Tokens == {"A", "B"}
ChanIds == 1..NumChannels
Users == {"u1", "u2"}
Matches == {"m1"}
MessageIds == {"x1"}
Callbacks == {"f", "g"}

\* values of a ref that holds a timer handle or a socket: null (0), a handle
\* whose timer was cleared or has fired / a socket that is CLOSED (-1: truthy,
\* but every operation on it is a no-op), or the id of a live one
NullRef == 0
StaleRef == -1
Truthy(ref) == ref # NullRef

VARIABLES
    authToken,            \* localStorage 'auth_token'
    token,                \* React state `token`
    effToken,             \* value of `token` the effects last ran with
    mounted,              \* the component using the hook is mounted
    hasCleanup,           \* the last run of the connect effect returned a cleanup
    chan,                 \* the WebSocket objects created by connect()
    wsRef,
    heartbeatIntervalRef,
    heartbeats,           \* active setInterval heartbeat timers, by channel
    reconnectTimeoutRef,
    reconnectTimers,      \* pending setTimeout reconnect timers
    userStatuses,
    typingStatuses,
    typingTimeoutsRef,
    typingTimers,         \* pending typing-expiry timers
    messageListenersRef,        \* the three listener Sets, in insertion order
    messageStatusListenersRef,
    matchStatusListenersRef,
    unsubscribers,        \* the unsubscribe closures handed out so far
    location,             \* window.location.pathname
    conv,                 \* a key and its conversions by the API client
    user,                 \* AuthProvider state `user`
    queryData,            \* `data` of the /api/auth/me query
    pending,              \* requests awaiting their answer, effects awaiting their run
    writes,               \* token-store writes performed so far
    last                  \* the event the last step handled (observation)

vars == <<authToken, token, effToken, mounted, hasCleanup, chan, wsRef,
          heartbeatIntervalRef, heartbeats, reconnectTimeoutRef,
          reconnectTimers, userStatuses, typingStatuses, typingTimeoutsRef,
          typingTimers, messageListenersRef, messageStatusListenersRef,
          matchStatusListenersRef, unsubscribers, location, conv, user, queryData, pending, writes, last>>

connVars == <<chan, wsRef, heartbeatIntervalRef, heartbeats,
              reconnectTimeoutRef, reconnectTimers>>
presenceVars == <<userStatuses, typingStatuses, typingTimeoutsRef, typingTimers>>
reactVars == <<token, effToken, mounted, hasCleanup>>
listenerVars == <<messageListenersRef, messageStatusListenersRef,
                  matchStatusListenersRef, unsubscribers>>
clientVars == <<location, conv>>
authVars == <<user, queryData, pending>>

NoChan == [st |-> "none", tok |-> NoToken, torn |-> FALSE]
NoEvent == [type |-> "none"]

\* ------------------------------------------------------------- API client
\* strings the code inspects character by character are sequences of
\* one-character strings
LoginPath == <<"/", "l", "o", "g", "i", "n">>
DashboardPath == <<"/", "d", "a", "s", "h", "b", "o", "a", "r", "d">>
LoginSlashPath == <<"/", "l", "o", "g", "i", "n", "/">>
UsersPath == <<"/", "u", "s", "e", "r", "s">>
Paths == {LoginPath, LoginSlashPath, DashboardPath, UsersPath}
Methods == {"GET", "POST"}
Endpoints == {"/api/auth/me", "/api/admin/users/"}
\* the value of a property that an object does not have
Undefined == "undefined"
\* message of the TypeError thrown when a property of null is read
NullTypeError == "Cannot read properties of null (reading 'message')"
NoConv == [op |-> "none"]
\* where the role check sends a user who is not an admin
MainAppUrl == <<"h", "t", "t", "p", "s", ":", "/", "/", "i", "k", "o", "n", "e", "t", "u", ".", "c", "o", "m">>
Roles == {"admin", "user"}
NoUser == [role |-> "none"]
NoData == [user |-> NoUser]

\* ------------------------------------------------------------ typing keys
\* const key = `${data.match_id}-${data.user_id}`
TypingKey(m, u) == m \o "-" \o u
Keys == {TypingKey(m, u) : m \in Matches, u \in Users}
TimerIds == 1..(Cardinality(Matches \X Users) + 1)
\* identifiers that contain the separator of the timer key
DashMatches == {"a", "a-b"}
DashUsers == {"b-c", "c"}

\* ------------------------------------------------------------------ Init
\* State after the first render and the first run of both effects:
\* useState reads the token store, the connect effect reads it again and
\* calls connect() iff a token is there.
HookInit ==
    /\ authToken \in Tokens \cup {NoToken}
    /\ token = authToken
    /\ effToken = authToken
    /\ mounted = TRUE
    /\ hasCleanup = (authToken # NoToken)
    /\ chan = [i \in ChanIds |->
                 IF i = 1 /\ authToken # NoToken
                 THEN [st |-> "connecting", tok |-> authToken, torn |-> FALSE]
                 ELSE NoChan]
    /\ wsRef = IF authToken # NoToken THEN 1 ELSE NullRef
    /\ heartbeatIntervalRef = NullRef
    /\ heartbeats = {}
    /\ reconnectTimeoutRef = NullRef
    /\ reconnectTimers = {}
    /\ userStatuses = <<>>
    /\ typingStatuses = <<>>
    /\ typingTimeoutsRef = <<>>
    /\ typingTimers = {}
    /\ messageListenersRef = <<>>
    /\ messageStatusListenersRef = <<>>
    /\ matchStatusListenersRef = <<>>
    /\ unsubscribers = <<>>
    /\ writes = 0
    /\ last = NoEvent

\* AuthProvider after its first render: no user, no query data, the
\* /api/auth/me query fetching iff a token is stored
AuthInit ==
    /\ user = NoUser
    /\ queryData = NoData
    /\ pending = [login |-> FALSE, logout |-> FALSE, me |-> authToken # NoToken,
                  effect |-> FALSE,
                  query |-> [st |-> "idle", requests |-> 0, failureCount |-> 0]]

\* the page shows a protected route and the API client has converted nothing
Init ==
    /\ HookInit
    /\ location = DashboardPath
    /\ conv = NoConv
    /\ AuthInit

\* ------------------------------------------------------------- connect()
\* ids of WebSocket objects / timer handles that nothing refers to any more
FreeIds(ch, hb, rt) ==
    {i \in ChanIds : ch[i].st = "none" /\ i \notin hb /\ \A t \in rt : t.id # i}
NewId(ch, hb, rt) ==
    CHOOSE i \in FreeIds(ch, hb, rt) : \A j \in FreeIds(ch, hb, rt) : i <= j

\* const ws = new WebSocket(wsUrl) with the token captured by the closure
connect(ch, id, tok, torn) ==
    [ch EXCEPT ![id] = [st |-> "connecting", tok |-> tok, torn |-> torn]]

\* clearInterval / clearTimeout leave the handle in the ref
Cleared(ref) == IF Truthy(ref) THEN StaleRef ELSE NullRef

\* ---------------------------------------------------------- effect cleanup
\* return () => { clearInterval(heartbeat); clearTimeout(reconnect);
\*                Object.values(typingTimeoutsRef.current).forEach(clearTimeout);
\*                wsRef.current.close() }
CleanupHeartbeats == heartbeats \ {heartbeatIntervalRef}
CleanupReconnectTimers ==
    {[t EXCEPT !.torn = TRUE] :
        t \in {r \in reconnectTimers : r.id # reconnectTimeoutRef}}
CleanupTypingTimers ==
    {[t EXCEPT !.torn = TRUE] :
        t \in {r \in typingTimers :
                 \A k \in DOMAIN typingTimeoutsRef : typingTimeoutsRef[k] # r.id}}
CleanupTypingRef == [k \in DOMAIN typingTimeoutsRef |-> StaleRef]
\* WebSocket.close(): CONNECTING or OPEN becomes CLOSING, the close event
\* is delivered by a later task
CleanupChan ==
    [i \in ChanIds |->
        IF chan[i].st = "none" THEN chan[i]
        ELSE [chan[i] EXCEPT !.torn = TRUE,
                             !.st = IF i = wsRef /\ @ \in {"connecting", "open"}
                                    THEN "closing" ELSE @]]

\* the state of the refs and timers after the cleanup of the connect
\* effect, which exists only if the last effect run got past its early return
AfterCleanup ==
    IF hasCleanup
    THEN [chan |-> CleanupChan,
          hb |-> CleanupHeartbeats,
          hbRef |-> Cleared(heartbeatIntervalRef),
          rt |-> CleanupReconnectTimers,
          rtRef |-> Cleared(reconnectTimeoutRef),
          tt |-> CleanupTypingTimers,
          ttRef |-> CleanupTypingRef]
    ELSE [chan |-> chan,
          hb |-> heartbeats,
          hbRef |-> heartbeatIntervalRef,
          rt |-> reconnectTimers,
          rtRef |-> reconnectTimeoutRef,
          tt |-> typingTimers,
          ttRef |-> typingTimeoutsRef]

\* ------------------------------------------------------ token store (env)
\* localStorage.setItem('auth_token', t): login, or another tab
StoreToken(t) ==
    /\ writes < MaxWrites
    /\ t # authToken
    /\ authToken' = t
    /\ writes' = writes + 1
    /\ last' = NoEvent
    /\ UNCHANGED <<reactVars, connVars, presenceVars, listenerVars, clientVars, authVars>>

\* localStorage.removeItem('auth_token'): logout, 401, role check
RemoveToken ==
    /\ writes < MaxWrites
    /\ authToken # NoToken
    /\ authToken' = NoToken
    /\ writes' = writes + 1
    /\ last' = NoEvent
    /\ UNCHANGED <<reactVars, connVars, presenceVars, listenerVars, clientVars, authVars>>

\* ------------------------------------------------------- polling interval
\* setInterval(() => { if (localStorage token !== token) setToken(...) }, 1000)
\* `token` is the value captured when the polling effect last ran
PollTick ==
    /\ mounted
    /\ authToken # effToken
    /\ token # authToken
    /\ token' = authToken
    /\ last' = NoEvent
    /\ UNCHANGED <<authToken, effToken, mounted, hasCleanup, connVars,
                   presenceVars, writes, listenerVars, clientVars, authVars>>

\* ------------------------------------------- effects re-run ([token] deps)
\* React flushes the passive effects of the render caused by setToken in a
\* later task: first the cleanups of the previous run, then both effects.
Commit ==
    /\ mounted
    /\ token # effToken
    /\ effToken' = token
    /\ LET a == AfterCleanup
           id == NewId(a.chan, a.hb, a.rt)
       IN  /\ heartbeats' = a.hb
           /\ heartbeatIntervalRef' = a.hbRef
           /\ reconnectTimers' = a.rt
           /\ reconnectTimeoutRef' = a.rtRef
           /\ typingTimers' = a.tt
           /\ typingTimeoutsRef' = a.ttRef
           /\ IF authToken # NoToken
              THEN /\ FreeIds(a.chan, a.hb, a.rt) # {}
                   /\ chan' = connect(a.chan, id, authToken, FALSE)
                   /\ wsRef' = id
                   /\ hasCleanup' = TRUE
                   /\ last' = [type |-> "connect", ch |-> id]
              ELSE /\ chan' = a.chan
                   /\ wsRef' = wsRef
                   /\ hasCleanup' = FALSE
                   /\ last' = NoEvent
    /\ UNCHANGED <<authToken, token, mounted, userStatuses, typingStatuses, writes, listenerVars, clientVars, authVars>>

\* the component using the hook unmounts: the cleanups run, nothing re-runs
Unmount ==
    /\ mounted
    /\ mounted' = FALSE
    /\ hasCleanup' = FALSE
    /\ LET a == AfterCleanup
       IN  /\ chan' = a.chan
           /\ heartbeats' = a.hb
           /\ heartbeatIntervalRef' = a.hbRef
           /\ reconnectTimers' = a.rt
           /\ reconnectTimeoutRef' = a.rtRef
           /\ typingTimers' = a.tt
           /\ typingTimeoutsRef' = a.ttRef
    /\ last' = NoEvent
    /\ UNCHANGED <<authToken, token, effToken, wsRef, userStatuses,
                   typingStatuses, writes, listenerVars, clientVars, authVars>>

\* ------------------------------------------------------ WebSocket events
\* faulty variant: a new channel starts with an empty presence map
WsOpenResetsPresence(c) ==
    /\ chan[c].st = "connecting"
    /\ chan' = [chan EXCEPT ![c].st = "open"]
    /\ heartbeats' = (heartbeats \ {heartbeatIntervalRef}) \cup {c}
    /\ heartbeatIntervalRef' = c
    /\ userStatuses' = <<>>
    /\ last' = NoEvent
    /\ UNCHANGED <<authToken, reactVars, wsRef, reconnectTimeoutRef,
                   reconnectTimers, typingStatuses, typingTimeoutsRef,
                   typingTimers, writes, listenerVars, clientVars, authVars>>

\* ws.onopen: clear the interval in the ref, start this socket's heartbeat
WsOpen(c) ==
    /\ chan[c].st = "connecting"
    /\ chan' = [chan EXCEPT ![c].st = "open"]
    /\ heartbeats' = (heartbeats \ {heartbeatIntervalRef}) \cup {c}
    /\ heartbeatIntervalRef' = c
    /\ last' = NoEvent
    /\ UNCHANGED <<authToken, reactVars, wsRef, reconnectTimeoutRef,
                   reconnectTimers, presenceVars, writes, listenerVars, clientVars, authVars>>

\* faulty variant: the close handler stops the heartbeat but schedules no reconnect
oncloseNoRetry(c) ==
    /\ chan' = [chan EXCEPT ![c] = NoChan]
    /\ wsRef' = IF wsRef = c THEN StaleRef ELSE wsRef
    /\ heartbeats' = heartbeats \ {heartbeatIntervalRef}
    /\ heartbeatIntervalRef' = Cleared(heartbeatIntervalRef)
    /\ last' = [type |-> "close", ch |-> c]
    /\ UNCHANGED <<authToken, reactVars, reconnectTimers, reconnectTimeoutRef,
                   presenceVars, writes, listenerVars, clientVars, authVars>>

\* ws.onclose: the socket is CLOSED; clear the interval in the ref and, if
\* the token store holds a token, schedule connect() of the same closure
onclose(c) ==
    /\ chan' = [chan EXCEPT ![c] = NoChan]
    /\ wsRef' = IF wsRef = c THEN StaleRef ELSE wsRef
    /\ heartbeats' = heartbeats \ {heartbeatIntervalRef}
    /\ heartbeatIntervalRef' = Cleared(heartbeatIntervalRef)
    /\ IF authToken # NoToken
       THEN /\ reconnectTimers' = reconnectTimers \cup
                   {[id |-> c, tok |-> chan[c].tok, torn |-> chan[c].torn]}
            /\ reconnectTimeoutRef' = c
       ELSE UNCHANGED <<reconnectTimers, reconnectTimeoutRef>>
    /\ last' = [type |-> "close", ch |-> c]
    /\ UNCHANGED <<authToken, reactVars, presenceVars, writes, listenerVars, clientVars, authVars>>

\* the close event that follows this side's close()
WsCloseEvent(c) ==
    /\ chan[c].st = "closing"
    /\ onclose(c)

\* the connection attempt fails, or the server / network drops the channel
WsFail(c) ==
    /\ chan[c].st \in {"connecting", "open"}
    /\ onclose(c)

\* setTimeout(() => connect(), 3000) of a close handler fires
ReconnectFire(t) ==
    /\ t \in reconnectTimers
    /\ LET rt == reconnectTimers \ {t}
           id == NewId(chan, heartbeats, rt)
       IN  /\ FreeIds(chan, heartbeats, rt) # {}
           /\ reconnectTimers' = rt
           /\ chan' = connect(chan, id, t.tok, t.torn)
           /\ wsRef' = id
    /\ reconnectTimeoutRef' = IF reconnectTimeoutRef = t.id THEN StaleRef
                              ELSE reconnectTimeoutRef
    /\ last' = [type |-> "connect", ch |-> NewId(chan, heartbeats, reconnectTimers \ {t})]
    /\ UNCHANGED <<authToken, reactVars, heartbeats, heartbeatIntervalRef,
                   presenceVars, writes, listenerVars, clientVars, authVars>>

\* the 30 s heartbeat interval of channel c fires
HeartbeatTick(c) ==
    /\ c \in heartbeats
    /\ chan[c].st = "open"
    /\ last' = [type |-> "ping", ch |-> c]
    /\ UNCHANGED <<authToken, reactVars, connVars, presenceVars, writes, listenerVars, clientVars, authVars>>

\* ------------------------------------------------------------ queries
\* userStatuses[userId] || { isOnline: false, isTyping: false }
getUserStatus(u) ==
    IF u \in DOMAIN userStatuses THEN userStatuses[u]
    ELSE [isOnline |-> FALSE, isTyping |-> FALSE]

\* typingStatuses[matchId]?.[userId] || false
isUserTypingInMatch(u, m) ==
    IF m \in DOMAIN typingStatuses
    THEN IF u \in DOMAIN typingStatuses[m] THEN typingStatuses[m][u] ELSE FALSE
    ELSE FALSE

\* ------------------------------------------------------- ws.onmessage
\* the browser delivers a message only to a socket whose readyState is OPEN

\* faulty variant: the snapshot is merged into the previous map: { ...prev, ...statuses }
InitialStatusesMerged(statuses) ==
    [u \in DOMAIN userStatuses \cup DOMAIN statuses |->
        IF u \in DOMAIN statuses
        THEN [isOnline |-> statuses[u], isTyping |-> FALSE]
        ELSE userStatuses[u]]

\* data.type === 'initial_statuses': the map is rebuilt from data.statuses
InitialStatuses(statuses) ==
    [u \in DOMAIN statuses |-> [isOnline |-> statuses[u], isTyping |-> FALSE]]

OnInitialStatuses(c, statuses) ==
    /\ chan[c].st = "open"
    /\ userStatuses' = InitialStatuses(statuses)
    /\ last' = [type |-> "initial_statuses", statuses |-> statuses,
                prev |-> userStatuses]
    /\ UNCHANGED <<authToken, reactVars, connVars, typingStatuses,
                   typingTimeoutsRef, typingTimers, writes, listenerVars, clientVars, authVars>>

\* data.is_typing || false, where has = the push carries an is_typing field
OrFalse(has, v) == IF has /\ v THEN TRUE ELSE FALSE

\* faulty variant: the spread of prev is forgotten: { [user_id]: { isOnline, isTyping } }
UserStatusNoSpread(prev, u, isOnline, hasTyping, isTyping) ==
    [x \in {u} |-> [isOnline |-> isOnline, isTyping |-> OrFalse(hasTyping, isTyping)]]

\* data.type === 'user_status': { ...prev, [user_id]: { isOnline, isTyping } }
UserStatus(prev, u, isOnline, hasTyping, isTyping) ==
    [x \in DOMAIN prev \cup {u} |->
        IF x = u THEN [isOnline |-> isOnline, isTyping |-> OrFalse(hasTyping, isTyping)]
        ELSE prev[x]]

OnUserStatus(c, u, isOnline, hasTyping, isTyping) ==
    /\ chan[c].st = "open"
    /\ userStatuses' = UserStatus(userStatuses, u, isOnline, hasTyping, isTyping)
    /\ last' = [type |-> "user_status", u |-> u, isOnline |-> isOnline,
                hasTyping |-> hasTyping, isTyping |-> hasTyping /\ isTyping,
                prev |-> userStatuses]
    /\ UNCHANGED <<authToken, reactVars, connVars, typingStatuses,
                   typingTimeoutsRef, typingTimers, writes, listenerVars, clientVars, authVars>>

\* { ...prev, [match_id]: { ...prev[match_id], [user_id]: flag } }
SetTyping(prev, m, u, flag) ==
    LET old == IF m \in DOMAIN prev THEN prev[m] ELSE <<>>
        new == [x \in DOMAIN old \cup {u} |-> IF x = u THEN flag ELSE old[x]]
    IN  [y \in DOMAIN prev \cup {m} |-> IF y = m THEN new ELSE prev[y]]

\* handle of the timer a ref entry points to, if the entry exists and is truthy
RefOf(ref, key) == IF key \in DOMAIN ref THEN ref[key] ELSE NullRef
NewTimerId(tt) ==
    CHOOSE i \in TimerIds : /\ \A t \in tt : t.id # i
                            /\ \A j \in TimerIds : (\A t \in tt : t.id # j) => i <= j

\* faulty variant: the pending timer of the key is not cleared before a new
\* one is started
OnTypingStatusNoClear(c, m, u, isTyping) ==
    LET key == TypingKey(m, u)
        \* clearTimeout(typingTimeoutsRef.current[key])
        tt == typingTimers
        id == NewTimerId(tt)
    IN  /\ chan[c].st = "open"
        /\ typingStatuses' = SetTyping(typingStatuses, m, u, isTyping)
        /\ IF isTyping
           THEN /\ \E i \in TimerIds : \A t \in tt : t.id # i
                /\ typingTimers' = tt \cup
                       {[id |-> id, key |-> key, m |-> m, u |-> u, torn |-> FALSE]}
                /\ typingTimeoutsRef' =
                       [k \in DOMAIN typingTimeoutsRef \cup {key} |->
                           IF k = key THEN id ELSE typingTimeoutsRef[k]]
           ELSE /\ typingTimers' = tt
                /\ typingTimeoutsRef' =
                       [k \in DOMAIN typingTimeoutsRef |->
                           IF k = key THEN Cleared(typingTimeoutsRef[k])
                           ELSE typingTimeoutsRef[k]]
        /\ last' = [type |-> "typing_status", m |-> m, u |-> u, isTyping |-> isTyping,
                    refreshed |-> \E t \in typingTimers : t.key = key]
        /\ UNCHANGED <<authToken, reactVars, connVars, userStatuses, writes, listenerVars, clientVars, authVars>>

\* data.type === 'typing_status'
OnTypingStatus(c, m, u, isTyping) ==
    LET key == TypingKey(m, u)
        \* clearTimeout(typingTimeoutsRef.current[key])
        tt == {t \in typingTimers : t.id # RefOf(typingTimeoutsRef, key)}
        id == NewTimerId(tt)
    IN  /\ chan[c].st = "open"
        /\ typingStatuses' = SetTyping(typingStatuses, m, u, isTyping)
        /\ IF isTyping
           THEN /\ \E i \in TimerIds : \A t \in tt : t.id # i
                /\ typingTimers' = tt \cup
                       {[id |-> id, key |-> key, m |-> m, u |-> u, torn |-> FALSE]}
                /\ typingTimeoutsRef' =
                       [k \in DOMAIN typingTimeoutsRef \cup {key} |->
                           IF k = key THEN id ELSE typingTimeoutsRef[k]]
           ELSE /\ typingTimers' = tt
                /\ typingTimeoutsRef' =
                       [k \in DOMAIN typingTimeoutsRef |->
                           IF k = key THEN Cleared(typingTimeoutsRef[k])
                           ELSE typingTimeoutsRef[k]]
        /\ last' = [type |-> "typing_status", m |-> m, u |-> u, isTyping |-> isTyping,
                    refreshed |-> \E t \in typingTimers : t.key = key]
        /\ UNCHANGED <<authToken, reactVars, connVars, userStatuses, writes, listenerVars, clientVars, authVars>>

\* faulty variant: the fired timer's handle stays in typingTimeoutsRef
TypingExpireKeepsHandle(t) ==
    /\ t \in typingTimers
    /\ typingTimers' = typingTimers \ {t}
    /\ typingStatuses' = SetTyping(typingStatuses, t.m, t.u, FALSE)
    /\ typingTimeoutsRef' =
           [k \in DOMAIN typingTimeoutsRef |->
               IF typingTimeoutsRef[k] = t.id THEN StaleRef ELSE typingTimeoutsRef[k]]
    /\ last' = [type |-> "expire", key |-> t.key, torn |-> t.torn, m |-> t.m, u |-> t.u,
                was |-> isUserTypingInMatch(t.u, t.m)]
    /\ UNCHANGED <<authToken, reactVars, connVars, userStatuses, writes, listenerVars, clientVars, authVars>>

\* the 3 s expiry timer fires: flag to false, delete the handle of its key
TypingExpire(t) ==
    /\ t \in typingTimers
    /\ typingTimers' = typingTimers \ {t}
    /\ typingStatuses' = SetTyping(typingStatuses, t.m, t.u, FALSE)
    /\ typingTimeoutsRef' =
           [k \in DOMAIN typingTimeoutsRef \ {t.key} |-> typingTimeoutsRef[k]]
    /\ last' = [type |-> "expire", key |-> t.key, torn |-> t.torn, m |-> t.m, u |-> t.u,
                was |-> isUserTypingInMatch(t.u, t.m)]
    /\ UNCHANGED <<authToken, reactVars, connVars, userStatuses, writes, listenerVars, clientVars, authVars>>

\* ------------------------------------------------------------- listeners
\* A listener registry is a JavaScript Set of callbacks: the sequence of its
\* members in insertion order, without duplicates.
Range(s) == {s[i] : i \in DOMAIN s}

\* Set.prototype.add
add(set, cb) == IF cb \in Range(set) THEN set ELSE Append(set, cb)

\* Set.prototype.delete
delete(set, cb) == SelectSeq(set, LAMBDA x : x # cb)

\* Set.prototype.forEach(listener => listener(arg)): the calls it makes
forEach(set, arg) == [i \in DOMAIN set |-> [listener |-> set[i], arg |-> arg]]

\* the registry a name stands for
Registry(r) ==
    CASE r = "message" -> messageListenersRef
      [] r = "messageStatus" -> messageStatusListenersRef
      [] r = "matchStatus" -> matchStatusListenersRef

Pushes == {"new_message", "message_status_update", "match_status_update"}
PushRegistry(type) ==
    CASE type = "new_message" -> "message"
      [] type = "message_status_update" -> "messageStatus"
      [] type = "match_status_update" -> "matchStatus"
RegistryNames == {"message", "messageStatus", "matchStatus"}

\* the closure returned by a subscription, not called so far
Unsubscriber(r, cb) == [reg |-> r, cb |-> cb, called |-> FALSE]

onNewMessage(callback) ==
    /\ mounted
    /\ Len(unsubscribers) < MaxSubscriptions
    /\ messageListenersRef' = add(messageListenersRef, callback)
    /\ unsubscribers' = Append(unsubscribers, Unsubscriber("message", callback))
    /\ last' = [type |-> "subscribe", reg |-> "message", cb |-> callback]
    /\ UNCHANGED <<authToken, reactVars, connVars, presenceVars, writes,
                   messageStatusListenersRef, matchStatusListenersRef, clientVars, authVars>>

onMessageStatusUpdate(callback) ==
    /\ mounted
    /\ Len(unsubscribers) < MaxSubscriptions
    /\ messageStatusListenersRef' = add(messageStatusListenersRef, callback)
    /\ unsubscribers' = Append(unsubscribers, Unsubscriber("messageStatus", callback))
    /\ last' = [type |-> "subscribe", reg |-> "messageStatus", cb |-> callback]
    /\ UNCHANGED <<authToken, reactVars, connVars, presenceVars, writes,
                   messageListenersRef, matchStatusListenersRef, clientVars, authVars>>

onMatchStatusUpdate(callback) ==
    /\ mounted
    /\ Len(unsubscribers) < MaxSubscriptions
    /\ matchStatusListenersRef' = add(matchStatusListenersRef, callback)
    /\ unsubscribers' = Append(unsubscribers, Unsubscriber("matchStatus", callback))
    /\ last' = [type |-> "subscribe", reg |-> "matchStatus", cb |-> callback]
    /\ UNCHANGED <<authToken, reactVars, connVars, presenceVars, writes,
                   messageListenersRef, messageStatusListenersRef, clientVars, authVars>>

\* faulty variant: the closure empties its registry
UnsubscribeClear(i) ==
    LET h == unsubscribers[i] IN
    /\ messageListenersRef' =
          IF h.reg = "message" THEN <<>> ELSE messageListenersRef
    /\ messageStatusListenersRef' =
          IF h.reg = "messageStatus" THEN <<>> ELSE messageStatusListenersRef
    /\ matchStatusListenersRef' =
          IF h.reg = "matchStatus" THEN <<>> ELSE matchStatusListenersRef
    /\ unsubscribers' = [unsubscribers EXCEPT ![i].called = TRUE]
    /\ last' = [type |-> "unsubscribe", reg |-> h.reg, cb |-> h.cb,
                again |-> h.called]
    /\ UNCHANGED <<authToken, reactVars, connVars, presenceVars, writes, clientVars, authVars>>

\* a call of the i-th closure returned by a subscription:
\* () => { <registry>.current.delete(callback) }
Unsubscribe(i) ==
    LET h == unsubscribers[i] IN
    /\ messageListenersRef' =
          IF h.reg = "message" THEN delete(messageListenersRef, h.cb)
          ELSE messageListenersRef
    /\ messageStatusListenersRef' =
          IF h.reg = "messageStatus" THEN delete(messageStatusListenersRef, h.cb)
          ELSE messageStatusListenersRef
    /\ matchStatusListenersRef' =
          IF h.reg = "matchStatus" THEN delete(matchStatusListenersRef, h.cb)
          ELSE matchStatusListenersRef
    /\ unsubscribers' = [unsubscribers EXCEPT ![i].called = TRUE]
    /\ last' = [type |-> "unsubscribe", reg |-> h.reg, cb |-> h.cb,
                again |-> h.called]
    /\ UNCHANGED <<authToken, reactVars, connVars, presenceVars, writes, clientVars, authVars>>

\* the frames the server pushes; body stands for the fields of a frame that
\* the handler does not read
NewMessages ==
    [type : {"new_message"}, match_id : Matches, message_id : MessageIds,
     sender_id : Users, body : {"hello"}]
MessageStatusUpdates ==
    [type : {"message_status_update"}, message_id : MessageIds,
     status : {"delivered", "read"}, body : {"hello"}]
MatchStatusUpdates ==
    [type : {"match_status_update"}, match_id : Matches, is_active : BOOLEAN,
     body : {"hello"}]

\* faulty variant: new_message is fanned out to the status listeners
OnNewMessageWrongRegistry(c, data) ==
    /\ chan[c].st = "open"
    /\ last' = [type |-> "new_message", data |-> data,
                calls |-> forEach(messageStatusListenersRef,
                                  [match_id |-> data.match_id,
                                   message_id |-> data.message_id,
                                   sender_id |-> data.sender_id])]
    /\ UNCHANGED <<authToken, reactVars, connVars, presenceVars, writes,
                   listenerVars, clientVars, authVars>>

\* data.type === 'new_message'
OnNewMessage(c, data) ==
    /\ chan[c].st = "open"
    /\ last' = [type |-> "new_message", data |-> data,
                calls |-> forEach(messageListenersRef,
                                  [match_id |-> data.match_id,
                                   message_id |-> data.message_id,
                                   sender_id |-> data.sender_id])]
    /\ UNCHANGED <<authToken, reactVars, connVars, presenceVars, writes,
                   listenerVars, clientVars, authVars>>

\* data.type === 'message_status_update'
OnMessageStatusUpdate(c, data) ==
    /\ chan[c].st = "open"
    /\ last' = [type |-> "message_status_update", data |-> data,
                calls |-> forEach(messageStatusListenersRef,
                                  [message_id |-> data.message_id,
                                   status |-> data.status])]
    /\ UNCHANGED <<authToken, reactVars, connVars, presenceVars, writes,
                   listenerVars, clientVars, authVars>>

\* data.type === 'match_status_update'
OnMatchStatusUpdate(c, data) ==
    /\ chan[c].st = "open"
    /\ last' = [type |-> "match_status_update", data |-> data,
                calls |-> forEach(matchStatusListenersRef,
                                  [match_id |-> data.match_id,
                                   is_active |-> data.is_active])]
    /\ UNCHANGED <<authToken, reactVars, connVars, presenceVars, writes,
                   listenerVars, clientVars, authVars>>

\* ------------------------------------------------------ sendTypingStatus
\* WebSocket.send on the socket in ref: transmitted when OPEN, an
\* InvalidStateError when CONNECTING, dropped when CLOSING or CLOSED
send(ref, frame) ==
    [sent |-> IF ref \in ChanIds /\ chan[ref].st = "open"
              THEN <<[ch |-> ref, frame |-> frame]>> ELSE <<>>,
     threw |-> ref \in ChanIds /\ chan[ref].st = "connecting"]
NotSent == [sent |-> <<>>, threw |-> FALSE]

\* faulty variant: only the ref is tested, not the readyState
sendTypingStatusNoReadyState(matchId, isTyping) ==
    LET r == IF Truthy(wsRef)
             THEN send(wsRef, [type |-> "typing", match_id |-> matchId,
                               is_typing |-> isTyping])
             ELSE NotSent
    IN  /\ last' = [type |-> "sendTypingStatus", matchId |-> matchId,
                    isTyping |-> isTyping, sent |-> r.sent, threw |-> r.threw]
        /\ UNCHANGED <<authToken, reactVars, connVars, presenceVars, writes,
                       listenerVars, clientVars, authVars>>

\* if (wsRef.current && wsRef.current.readyState === WebSocket.OPEN) send(...)
sendTypingStatus(matchId, isTyping) ==
    LET r == IF Truthy(wsRef) /\ wsRef \in ChanIds /\ chan[wsRef].st = "open"
             THEN send(wsRef, [type |-> "typing", match_id |-> matchId,
                               is_typing |-> isTyping])
             ELSE NotSent
    IN  /\ last' = [type |-> "sendTypingStatus", matchId |-> matchId,
                    isTyping |-> isTyping, sent |-> r.sent, threw |-> r.threw]
        /\ UNCHANGED <<authToken, reactVars, connVars, presenceVars, writes,
                       listenerVars, clientVars, authVars>>

\* ------------------------------------------------------------- apiRequest
\* String.prototype.includes on sequences of characters
Includes(s, sub) ==
    \E i \in 0..(Len(s) - Len(sub)) : SubSeq(s, i + 1, i + Len(sub)) = sub

\* window.location.href = p, navigate(p)
Navigate(p) ==
    /\ location # p
    /\ location' = p
    /\ last' = [type |-> "navigate", to |-> p]
    /\ UNCHANGED <<authToken, reactVars, connVars, presenceVars, writes,
                   listenerVars, conv, authVars>>

\* a || b
Or(a, b) == IF a \in {Undefined, ""} THEN b ELSE a

\* obj.name of a parsed body that is an object
Field(obj, name) == IF name \in DOMAIN obj.fields THEN obj.fields[name] ELSE Undefined

\* await response.json().catch(() => ({}))
ErrorData(response) ==
    IF response.body.kind = "unparsable" THEN [kind |-> "object", fields |-> <<>>]
    ELSE response.body

\* what the rejected promise of apiRequest carries: the Error built from the
\* || chain, or the TypeError of reading a property of null
Failure(response) ==
    LET errorData == ErrorData(response)
    IN  IF errorData.kind = "null"
        THEN [threw |-> TRUE, message |-> NullTypeError]
        ELSE [threw |-> TRUE,
              message |-> Or(Or(Or(Field(errorData, "message"),
                                   Field(errorData, "detail")),
                                response.statusText),
                             "Request failed")]

\* response.ok
Ok(response) == response.status \in 200..299

\* the responses of the server
Bodies ==
    {[kind |-> "unparsable"], [kind |-> "null"]} \cup
    [kind : {"object"},
     fields : UNION {[S -> {"", "boom"}] : S \in SUBSET {"message", "detail"}}]
Responses ==
    [status : {200, 401, 500}, statusText : {"", "Server Error"}, body : Bodies]

\* faulty variant: the pathname is compared with '/login' instead of searched
apiRequestPathEquals(method, endpoint, response) ==
    LET r == IF Ok(response) THEN [threw |-> FALSE, message |-> Undefined]
             ELSE Failure(response)
    IN  /\ authToken' = IF ~Ok(response) /\ response.status = 401
                        THEN NoToken ELSE authToken
        /\ location' = IF /\ ~Ok(response) /\ response.status = 401
                          /\ location # LoginPath
                       THEN LoginPath ELSE location
        /\ last' = [type |-> "apiRequest", method |-> method, endpoint |-> endpoint,
                    response |-> response, token |-> authToken, from |-> location,
                    threw |-> r.threw, message |-> r.message]
        /\ UNCHANGED <<reactVars, connVars, presenceVars, writes, listenerVars, conv, authVars>>

\* apiRequest(method, endpoint, data) receiving response from fetch
apiRequest(method, endpoint, response) ==
    LET r == IF Ok(response) THEN [threw |-> FALSE, message |-> Undefined]
             ELSE Failure(response)
    IN  /\ authToken' = IF ~Ok(response) /\ response.status = 401
                        THEN NoToken ELSE authToken
        /\ location' = IF /\ ~Ok(response) /\ response.status = 401
                          /\ ~Includes(location, LoginPath)
                       THEN LoginPath ELSE location
        /\ last' = [type |-> "apiRequest", method |-> method, endpoint |-> endpoint,
                    response |-> response, token |-> authToken, from |-> location,
                    threw |-> r.threw, message |-> r.message]
        /\ UNCHANGED <<reactVars, connVars, presenceVars, writes, listenerVars, conv, authVars>>

\* -------------------------------------------------------- case conversion
\* A key is the sequence of its characters.
LowerCase == {"a", "b"}
UpperCase == {"A", "B"}
Digits == {"1"}
Chars == LowerCase \cup UpperCase \cup Digits \cup {"_"}

toLowerCase(c) == CASE c = "A" -> "a" [] c = "B" -> "b" [] OTHER -> c
toUpperCase(c) == CASE c = "a" -> "A" [] c = "b" -> "B" [] OTHER -> c

\* faulty variant: the letter after the underscore is not capitalised
CamelReplacementNoUpper(letter) == <<letter>>

\* (_, letter) => letter.toUpperCase()
CamelReplacement(letter) == <<toUpperCase(letter)>>

\* str.replace(/_([a-z])/g, ...): matches are found from left to right and
\* do not overlap
RECURSIVE toCamelCase(_)
toCamelCase(str) ==
    IF str = <<>> THEN <<>>
    ELSE IF Head(str) = "_" /\ Len(str) >= 2 /\ str[2] \in LowerCase
         THEN CamelReplacement(str[2]) \o toCamelCase(Tail(Tail(str)))
         ELSE <<Head(str)>> \o toCamelCase(Tail(str))

\* faulty variant: the capital is kept behind the underscore
SnakeReplacementKeepCase(letter) == <<"_", letter>>

\* letter => `_${letter.toLowerCase()}`
SnakeReplacement(letter) == <<"_", toLowerCase(letter)>>

\* str.replace(/[A-Z]/g, ...)
RECURSIVE toSnakeCase(_)
toSnakeCase(str) ==
    IF str = <<>> THEN <<>>
    ELSE (IF Head(str) \in UpperCase THEN SnakeReplacement(Head(str))
          ELSE <<Head(str)>>) \o toSnakeCase(Tail(str))

\* all keys of at most MaxKeyLen characters
Keys0 == UNION {[1..n -> Chars] : n \in 0..MaxKeyLen}

\* a key is handed to the converters
InitCase ==
    /\ HookInit
    /\ location = DashboardPath
    /\ conv \in [op : {"key"}, key : Keys0, out : Keys0, ops : {<<>>}]
    /\ conv.out = conv.key
    /\ AuthInit

\* keysToSnake converts the key at hand (request side)
KeyToSnake ==
    /\ Len(conv.ops) < 2
    /\ conv' = [op |-> "toSnakeCase", key |-> conv.key,
                out |-> toSnakeCase(conv.out),
                ops |-> Append(conv.ops, "toSnakeCase")]
    /\ last' = [type |-> "convert"]
    /\ UNCHANGED <<authToken, reactVars, connVars, presenceVars, writes,
                   listenerVars, location, authVars>>

\* keysToCamel converts the key at hand (response side)
KeyToCamel ==
    /\ Len(conv.ops) < 2
    /\ conv' = [op |-> "toCamelCase", key |-> conv.key,
                out |-> toCamelCase(conv.out),
                ops |-> Append(conv.ops, "toCamelCase")]
    /\ last' = [type |-> "convert"]
    /\ UNCHANGED <<authToken, reactVars, connVars, presenceVars, writes,
                   listenerVars, location, authVars>>

\* ------------------------------------------------- keysToCamel / keysToSnake
\* A JSON value: null, a primitive, an array (the sequence of its items) or
\* a plain object (the sequence of its entries in insertion order, no key
\* twice).
Null == [kind |-> "null"]
Primitives == [kind : {"prim"}, v : 0..MaxPrim] \cup {Null}
ObjectKeys == {<<"a", "_", "b">>, <<"a", "B">>}
KeyLists == {<<>>} \cup {<<k>> : k \in ObjectKeys}
               \cup {ks \in ObjectKeys \X ObjectKeys : ks[1] # ks[2]}
Arrays(S) == [kind : {"arr"}, items : UNION {[1..n -> S] : n \in 0..2}]
Objects(S) ==
    {[kind |-> "obj", entries |-> [i \in DOMAIN ks |-> [key |-> ks[i], value |-> vs[i]]]] :
        <<ks, vs>> \in UNION {{ks0} \X [DOMAIN ks0 -> S] : ks0 \in KeyLists}}
Nested(S) == S \cup Arrays(S) \cup Objects(S)
\* values of nesting depth at most two
JsonValues == Nested(Nested(Primitives))

\* acc[key] = value on an object
SetEntry(acc, key, value) ==
    IF \E i \in DOMAIN acc : acc[i].key = key
    THEN [i \in DOMAIN acc |->
            IF acc[i].key = key THEN [key |-> key, value |-> value] ELSE acc[i]]
    ELSE Append(acc, [key |-> key, value |-> value])

RECURSIVE keysToCamel(_)
RECURSIVE CamelReduce(_, _)
\* Object.keys(obj).reduce((acc, key) => { acc[toCamelCase(key)] = ... }, {})
CamelReduce(entries, acc) ==
    IF entries = <<>> THEN acc
    ELSE CamelReduce(Tail(entries),
                     SetEntry(acc, toCamelCase(Head(entries).key),
                              keysToCamel(Head(entries).value)))
keysToCamel(obj) ==
    IF obj = Null THEN obj
    ELSE IF obj.kind = "arr"
         THEN [kind |-> "arr",
               items |-> [i \in DOMAIN obj.items |-> keysToCamel(obj.items[i])]]
    ELSE IF obj.kind = "obj"
         THEN [kind |-> "obj", entries |-> CamelReduce(obj.entries, <<>>)]
    ELSE obj

RECURSIVE keysToSnake(_)
RECURSIVE SnakeReduce(_, _)
\* Object.keys(obj).reduce((acc, key) => { acc[toSnakeCase(key)] = ... }, {})
SnakeReduce(entries, acc) ==
    IF entries = <<>> THEN acc
    ELSE SnakeReduce(Tail(entries),
                     SetEntry(acc, toSnakeCase(Head(entries).key),
                              keysToSnake(Head(entries).value)))
keysToSnake(obj) ==
    IF obj = Null THEN obj
    ELSE IF obj.kind = "arr"
         THEN [kind |-> "arr",
               items |-> [i \in DOMAIN obj.items |-> keysToSnake(obj.items[i])]]
    ELSE IF obj.kind = "obj"
         THEN [kind |-> "obj", entries |-> SnakeReduce(obj.entries, <<>>)]
    ELSE obj

\* a value is handed to the converters
InitKeys ==
    /\ HookInit
    /\ location = DashboardPath
    /\ conv \in [op : {"value"}, value : JsonValues]
    /\ AuthInit

\* apiFetch converts the parsed response
ResponseToCamel ==
    /\ conv.op = "value"
    /\ conv' = [op |-> "keysToCamel", value |-> conv.value,
                out |-> keysToCamel(conv.value)]
    /\ last' = [type |-> "convert"]
    /\ UNCHANGED <<authToken, reactVars, connVars, presenceVars, writes,
                   listenerVars, location, authVars>>

\* apiRequest converts the request data
RequestToSnake ==
    /\ conv.op = "value"
    /\ conv' = [op |-> "keysToSnake", value |-> conv.value,
                out |-> keysToSnake(conv.value)]
    /\ last' = [type |-> "convert"]
    /\ UNCHANGED <<authToken, reactVars, connVars, presenceVars, writes,
                   listenerVars, location, authVars>>

\* ------------------------------------------------- apiRequest: the request
\* the data argument: left out, or a JSON value
UndefinedData == [kind |-> "undefined"]
RequestData ==
    {UndefinedData, Null, [kind |-> "prim", v |-> 0], [kind |-> "prim", v |-> 1],
     [kind |-> "obj",
      entries |-> <<[key |-> <<"a", "B">>, value |-> [kind |-> "prim", v |-> 1]]>>]}
RequestMethods == {"GET", "POST", "PUT", "PATCH", "DELETE"}
NoBody == [kind |-> "none"]

\* `data &&`: undefined, null and 0 are falsy
TruthyData(d) == d \notin {UndefinedData, Null, [kind |-> "prim", v |-> 0]}

\* headers of the request: Content-Type, and Authorization if (token)
Headers(tok) ==
    [h \in {"Content-Type"} \cup (IF tok # NoToken THEN {"Authorization"} ELSE {}) |->
        IF h = "Content-Type" THEN "application/json" ELSE "Bearer " \o tok]

\* faulty variant: the body is forwarded whatever the method is
apiRequestSendAnyMethod(method, endpoint, d) ==
    /\ last' = [type |-> "request", data |-> d,
                request |-> [method |-> method, endpoint |-> endpoint,
                             headers |-> Headers(authToken),
                             body |-> IF TruthyData(d) THEN keysToSnake(d) ELSE NoBody]]
    /\ UNCHANGED <<authToken, reactVars, connVars, presenceVars, writes,
                   listenerVars, clientVars, authVars>>

\* apiRequest(method, endpoint, data) up to the await of fetch
apiRequestSend(method, endpoint, d) ==
    /\ last' = [type |-> "request", data |-> d,
                request |-> [method |-> method, endpoint |-> endpoint,
                             headers |-> Headers(authToken),
                             body |-> IF TruthyData(d) /\ method \in {"POST", "PUT", "PATCH"}
                                      THEN keysToSnake(d) ELSE NoBody]]
    /\ UNCHANGED <<authToken, reactVars, connVars, presenceVars, writes,
                   listenerVars, clientVars, authVars>>

\* ------------------------------------------------------------ AuthProvider
\* what a request of AuthProvider is answered with: the status, whether the
\* body parses as JSON, and the token and the role of the user in the body
AuthResponses ==
    [status : {200, 401, 500}, parsed : BOOLEAN,
     token : Tokens \cup {NoToken}, role : Roles]

\* apiFetch resolves: response.ok and response.json() parses
Resolves(r) == r.status \in 200..299 /\ r.parsed

\* the token store and the location after apiRequest has handled r
TokenAfter(r) == IF r.status = 401 THEN NoToken ELSE authToken
LocationAfter(r) ==
    IF r.status = 401 /\ ~Includes(location, LoginPath) THEN LoginPath ELSE location

\* isLoading of the /api/auth/me query
isLoading == pending.me /\ queryData = NoData

\* context value: isAuthenticated: !!user
isAuthenticated == user # NoUser

\* loginMutation.mutationFn up to the await of the request
LoginBegin ==
    /\ ~pending.login
    /\ authToken' = NoToken
    /\ pending' = [pending EXCEPT !.login = TRUE]
    /\ last' = [type |-> "login_begin"]
    /\ UNCHANGED <<reactVars, connVars, presenceVars, writes, listenerVars,
                   clientVars, user, queryData>>

\* faulty variant: onSuccess without the role check
LoginResponseNoRoleCheck(r) ==
    /\ pending.login
    /\ authToken' = IF Resolves(r)
                    THEN (IF r.token # NoToken THEN r.token ELSE authToken)
                    ELSE TokenAfter(r)
    /\ location' = IF Resolves(r) THEN location ELSE LocationAfter(r)
    /\ user' = IF Resolves(r) THEN [role |-> r.role] ELSE user
    /\ pending' = [pending EXCEPT !.login = FALSE,
                                  !.me = IF Resolves(r) THEN authToken' # NoToken ELSE @,
                                  !.effect = IF Resolves(r) THEN TRUE ELSE @]
    /\ last' = [type |-> "login", response |-> r, failed |-> ~Resolves(r)]
    /\ UNCHANGED <<reactVars, connVars, presenceVars, writes, listenerVars,
                   conv, queryData>>

\* the answer to the login request: apiRequest's failure handling, or
\* loginMutation.onSuccess (role check, setItem, setUser, refetch)
LoginResponse(r) ==
    /\ pending.login
    /\ authToken' = IF Resolves(r)
                    THEN (IF r.role # "admin" THEN NoToken
                          ELSE IF r.token # NoToken THEN r.token ELSE authToken)
                    ELSE TokenAfter(r)
    /\ location' = IF Resolves(r) THEN location ELSE LocationAfter(r)
    /\ user' = IF Resolves(r) /\ r.role = "admin" THEN [role |-> r.role] ELSE user
    /\ pending' = [pending EXCEPT !.login = FALSE,
                                  !.me = IF Resolves(r) /\ r.role = "admin"
                                         THEN authToken' # NoToken ELSE @,
                                  !.effect = IF Resolves(r) /\ r.role = "admin"
                                             THEN TRUE ELSE @]
    /\ last' = [type |-> "login", response |-> r,
                failed |-> ~(Resolves(r) /\ r.role = "admin")]
    /\ UNCHANGED <<reactVars, connVars, presenceVars, writes, listenerVars,
                   conv, queryData>>

\* the answer to the /api/auth/me request (retry: false)
MeResponse(r) ==
    /\ pending.me
    /\ authToken' = IF Resolves(r) THEN authToken ELSE TokenAfter(r)
    /\ location' = IF Resolves(r) THEN location ELSE LocationAfter(r)
    /\ queryData' = IF Resolves(r) THEN [user |-> [role |-> r.role]] ELSE queryData
    /\ pending' = [pending EXCEPT !.me = FALSE, !.effect = TRUE]
    /\ last' = [type |-> "me", response |-> r]
    /\ UNCHANGED <<reactVars, connVars, presenceVars, writes, listenerVars,
                   conv, user>>

\* useEffect(..., [data, isLoading, toast]): sync user with the query data
\* and verify the admin role
RoleEffect ==
    /\ pending.effect
    /\ pending' = [pending EXCEPT !.effect = FALSE]
    /\ IF queryData # NoData
       THEN IF queryData.user.role # "admin"
            THEN /\ authToken' = NoToken
                 /\ user' = NoUser
                 /\ location' = MainAppUrl
            ELSE /\ user' = queryData.user
                 /\ UNCHANGED <<authToken, location>>
       ELSE /\ user' = IF ~isLoading THEN NoUser ELSE user
            /\ UNCHANGED <<authToken, location>>
    /\ last' = [type |-> "role_effect"]
    /\ UNCHANGED <<reactVars, connVars, presenceVars, writes, listenerVars,
                   conv, queryData>>

\* logoutMutation.mutationFn up to the await of the request
LogoutBegin ==
    /\ ~pending.logout
    /\ pending' = [pending EXCEPT !.logout = TRUE]
    /\ last' = [type |-> "logout_begin"]
    /\ UNCHANGED <<authToken, reactVars, connVars, presenceVars, writes,
                   listenerVars, clientVars, user, queryData>>

\* the answer to the logout request: apiRequest's failure handling, or
\* logoutMutation.onSuccess (removeItem, setUser(null), queryClient.clear())
LogoutResponse(r) ==
    /\ pending.logout
    /\ authToken' = IF Resolves(r) THEN NoToken ELSE TokenAfter(r)
    /\ location' = IF Resolves(r) THEN location ELSE LocationAfter(r)
    /\ user' = IF Resolves(r) THEN NoUser ELSE user
    /\ queryData' = IF Resolves(r) THEN NoData ELSE queryData
    /\ pending' = [pending EXCEPT !.logout = FALSE]
    /\ last' = [type |-> "logout", response |-> r, failed |-> ~Resolves(r)]
    /\ UNCHANGED <<reactVars, connVars, presenceVars, writes, listenerVars, conv>>

\* ------------------------------------------------------------ queryClient
\* defaultOptions.queries.retry of the exported queryClient
DefaultRetry == 1

QueryResponses == [status : {200, 401, 500}, parsed : BOOLEAN]
NoQuery == [st |-> "idle", requests |-> 0, failureCount |-> 0]

\* a query with the default options starts: its queryFn calls api.get
QueryFetch(endpoint) ==
    /\ pending.query.st = "idle"
    /\ pending' = [pending EXCEPT !.query =
                      [st |-> "fetching", requests |-> 1, failureCount |-> 0]]
    /\ last' = [type |-> "query_request", endpoint |-> endpoint]
    /\ UNCHANGED <<authToken, reactVars, connVars, presenceVars, writes,
                   listenerVars, clientVars, user, queryData>>

\* the answer to the request of the query: it settles on success and when
\* the failure count has reached retry, otherwise a retry is scheduled; the
\* navigation of apiRequest's 401 branch unloads the page and the query
QueryResponse(r) ==
    /\ pending.query.st = "fetching"
    /\ authToken' = IF Resolves(r) THEN authToken ELSE TokenAfter(r)
    /\ location' = IF Resolves(r) THEN location ELSE LocationAfter(r)
    /\ IF Resolves(r)
       THEN /\ pending' = [pending EXCEPT !.query = NoQuery]
            /\ last' = [type |-> "query_settled", failed |-> FALSE,
                        requests |-> pending.query.requests]
       ELSE IF location' # location
       THEN /\ pending' = [pending EXCEPT !.query = NoQuery]
            /\ last' = [type |-> "query_unloaded"]
       ELSE IF pending.query.failureCount < DefaultRetry
       THEN /\ pending' = [pending EXCEPT !.query.st = "waiting",
                                          !.query.failureCount = @ + 1]
            /\ last' = [type |-> "query_failure"]
       ELSE /\ pending' = [pending EXCEPT !.query = NoQuery]
            /\ last' = [type |-> "query_settled", failed |-> TRUE,
                        requests |-> pending.query.requests]
    /\ UNCHANGED <<reactVars, connVars, presenceVars, writes, listenerVars,
                   conv, user, queryData>>

\* the retry delay has passed: the queryFn is called again
QueryRetry ==
    /\ pending.query.st = "waiting"
    /\ pending' = [pending EXCEPT !.query.st = "fetching",
                                  !.query.requests = @ + 1]
    /\ last' = [type |-> "query_retry"]
    /\ UNCHANGED <<authToken, reactVars, connVars, presenceVars, writes,
                   listenerVars, clientVars, user, queryData>>

\* ---------------------------------------- callbacks that unsubscribe
\* What each callback does when it is called: nothing (0), or call the i-th
\* unsubscribe closure.
CallbackEffects == [Callbacks -> {0} \cup DOMAIN unsubscribers]

\* Set.prototype.forEach over the registry named r while the callbacks
\* delete members: set0 is the registry when the iteration starts, a member
\* deleted before its turn is not visited
RECURSIVE ForEachLive(_, _, _, _, _)
ForEachLive(r, set0, i, effects, st) ==
    IF i > Len(set0) THEN st
    ELSE IF set0[i] \notin Range(st.regs[r]) THEN ForEachLive(r, set0, i + 1, effects, st)
    ELSE LET e == effects[set0[i]]
             called == [st EXCEPT !.calls = Append(@, set0[i])]
         IN  ForEachLive(r, set0, i + 1, effects,
                IF e = 0 THEN called
                ELSE [called EXCEPT !.regs[st.unsub[e].reg] = delete(@, st.unsub[e].cb),
                                    !.unsub[e].called = TRUE])

\* a push of the given type arrives and the callbacks of its registry act
\* as effects says
DispatchReentrant(c, type, effects) ==
    LET r == PushRegistry(type)
        st == ForEachLive(r, Registry(r), 1, effects,
                 [regs |-> [x \in RegistryNames |-> Registry(x)],
                  calls |-> <<>>, unsub |-> unsubscribers])
    IN  /\ chan[c].st = "open"
        /\ messageListenersRef' = st.regs["message"]
        /\ messageStatusListenersRef' = st.regs["messageStatus"]
        /\ matchStatusListenersRef' = st.regs["matchStatus"]
        /\ unsubscribers' = st.unsub
        /\ last' = [type |-> "dispatch", push |-> type, before |-> Registry(r),
                    calls |-> st.calls]
        /\ UNCHANGED <<authToken, reactVars, connVars, presenceVars, writes,
                       clientVars, authVars>>

\* ------------------------------------------------------- specifications
Statuses == UNION {[S -> BOOLEAN] : S \in SUBSET Users}

TokenStep == (\E t \in Tokens : StoreToken(t)) \/ RemoveToken
ReactStep == PollTick \/ Commit \/ Unmount
ChannelStep ==
    \E c \in ChanIds : WsOpen(c) \/ WsCloseEvent(c) \/ WsFail(c) \/ HeartbeatTick(c)
TimerStep == \E t \in reconnectTimers : ReconnectFire(t)
PresenceStep ==
    \E c \in ChanIds :
        \/ \E s \in Statuses : OnInitialStatuses(c, s)
        \/ \E u \in Users, o \in BOOLEAN, h \in BOOLEAN, ty \in BOOLEAN :
              OnUserStatus(c, u, o, h, ty)
TypingStep ==
    \/ \E c \in ChanIds, m \in Matches, u \in Users, f \in BOOLEAN :
          OnTypingStatus(c, m, u, f)
    \/ \E t \in typingTimers : TypingExpire(t)

SubscribeStep ==
    \/ \E cb \in Callbacks :
          onNewMessage(cb) \/ onMessageStatusUpdate(cb) \/ onMatchStatusUpdate(cb)
    \/ \E i \in DOMAIN unsubscribers : Unsubscribe(i)
DispatchStep ==
    \E c \in ChanIds :
        \/ \E data \in NewMessages : OnNewMessage(c, data)
        \/ \E data \in MessageStatusUpdates : OnMessageStatusUpdate(c, data)
        \/ \E data \in MatchStatusUpdates : OnMatchStatusUpdate(c, data)

\* the connection manager alone: token store, effects, channels, timers
Next == TokenStep \/ ReactStep \/ ChannelStep \/ TimerStep
Spec == Init /\ [][Next]_vars

\* the connection manager with the typing pushes and their expiry timers
NextTyping == Next \/ TypingStep
SpecTyping == Init /\ [][NextTyping]_vars

\* one chain of channels (open, drop, unmount, reconnect) with the typing
\* pushes and their expiry timers
NextTypingChain ==
    \/ \E c \in ChanIds : WsOpen(c) \/ WsFail(c) \/ WsCloseEvent(c)
    \/ TimerStep
    \/ Unmount
    \/ TypingStep
SpecTypingChain == Init /\ [][NextTypingChain]_vars

\* one chain of channels (open, drop, reconnect) with the presence pushes
NextPresence ==
    \/ \E c \in ChanIds : WsOpen(c) \/ WsFail(c)
    \/ TimerStep
    \/ PresenceStep
SpecPresence == Init /\ [][NextPresence]_vars

\* one chain of channels (open, drop, reconnect) with the listener
\* registries and the pushes fanned out to them
NextListeners ==
    \/ \E c \in ChanIds : WsOpen(c) \/ WsFail(c)
    \/ TimerStep
    \/ SubscribeStep
    \/ DispatchStep
SpecListeners == Init /\ [][NextListeners]_vars

\* the connection manager with calls of sendTypingStatus at any moment
SendStep == \E m \in Matches, f \in BOOLEAN : sendTypingStatus(m, f)
NextSend == Next \/ SendStep
SpecSend == Init /\ [][NextSend]_vars

\* the API client: requests from any page, with any stored token
ApiStep ==
    \/ \E p \in Paths : Navigate(p)
    \/ \E method \in RequestMethods, endpoint \in Endpoints, d \in RequestData :
          apiRequestSend(method, endpoint, d)
    \/ \E method \in Methods, endpoint \in Endpoints, response \in Responses :
          apiRequest(method, endpoint, response)
NextApi == TokenStep \/ ApiStep
SpecApi == Init /\ [][NextApi]_vars

\* the two converters applied to a key, one after the other
NextCase == KeyToSnake \/ KeyToCamel
SpecCase == InitCase /\ [][NextCase]_vars

\* the recursive converters applied to a JSON value
NextKeys == ResponseToCamel \/ RequestToSnake
SpecKeys == InitKeys /\ [][NextKeys]_vars

\* AuthProvider: login, logout, the /api/auth/me query and the role effect
AuthStep ==
    \/ LoginBegin
    \/ LogoutBegin
    \/ RoleEffect
    \/ \E r \in AuthResponses : LoginResponse(r) \/ MeResponse(r) \/ LogoutResponse(r)
NextAuth == AuthStep
SpecAuth == Init /\ [][NextAuth]_vars

\* queries run through the exported queryClient, with any stored token
QueryStep ==
    \/ \E endpoint \in Endpoints : QueryFetch(endpoint)
    \/ \E r \in QueryResponses : QueryResponse(r)
    \/ QueryRetry
NextQuery == TokenStep \/ QueryStep \/ \E p \in Paths : Navigate(p)
SpecQuery == Init /\ [][NextQuery]_vars

\* the listener registries with callbacks that unsubscribe during a fan-out
ReentrantStep ==
    \E c \in ChanIds, type \in Pushes, effects \in CallbackEffects :
        DispatchReentrant(c, type, effects)
NextReentrant ==
    \/ \E c \in ChanIds : WsOpen(c) \/ WsFail(c)
    \/ TimerStep
    \/ SubscribeStep
    \/ ReentrantStep
SpecReentrant == Init /\ [][NextReentrant]_vars

\* one chain of channels (open, drop, reconnect) with all pushes that touch
\* the presence and typing maps
NextSession == NextPresence \/ TypingStep
SpecSession == Init /\ [][NextSession]_vars

\* one chain of channels with typing pushes whose identifiers contain '-'
DashTypingStep ==
    \/ \E c \in ChanIds, m \in DashMatches, u \in DashUsers, f \in BOOLEAN :
          OnTypingStatus(c, m, u, f)
    \/ \E t \in typingTimers : TypingExpire(t)
NextDash ==
    \/ \E c \in ChanIds : WsOpen(c) \/ WsFail(c)
    \/ TimerStep
    \/ DashTypingStep
SpecDash == Init /\ [][NextDash]_vars

\* what the scheduling of the browser and of React guarantees: the polling
\* interval keeps ticking, scheduled effects are flushed, the close event of
\* a closed socket is delivered, a pending timeout fires
Fairness ==
    /\ WF_vars(PollTick)
    /\ WF_vars(Commit)
    /\ \A c \in ChanIds : WF_vars(WsCloseEvent(c))
    /\ \A c \in ChanIds : WF_vars(\E t \in reconnectTimers : t.id = c /\ ReconnectFire(t))
FairSpec == Spec /\ Fairness

\* ---------------------------------------------------- connection states
Live(c) == chan[c].st \in {"connecting", "open"}
LiveChannels == {c \in ChanIds : Live(c)}
\* the manager's state, read off the socket in wsRef
Connected == wsRef \in ChanIds /\ chan[wsRef].st = "open"
Connecting == wsRef \in ChanIds /\ chan[wsRef].st = "connecting"
Disconnected == ~Connected /\ ~Connecting

\* ------------------------------------------------------------------ C1
\* C1: after the cleanup of the connect effect has run, no heartbeat ping is
\* sent on a channel of the torn-down manager and no typing-expiry timer
\* that was scheduled before the cleanup fires.
C1_NoActivityAfterTeardown ==
    /\ last.type = "ping" => ~chan[last.ch].torn
    /\ last.type = "expire" => ~last.torn

\* ------------------------------------------------------------------ C2
\* C2: once the cleanup of a manager instance has run, no reconnect timer of
\* that instance is pending and the instance creates no further channel.
C2_TeardownCancelsReconnect ==
    /\ \A t \in reconnectTimers : ~t.torn
    /\ last.type = "connect" => ~chan[last.ch].torn

\* ------------------------------------------------------------------ C3
\* C3: at most one channel created by the hook is connecting or open.
C3_SingleConnection == Cardinality(LiveChannels) <= 1

\* ------------------------------------------------------------------ C4
\* C4: a channel is created only in a state where the token store holds a
\* Credential.
C4_ConnectOnlyWithCredential ==
    last.type = "connect" => authToken # NoToken

\* ------------------------------------------------------------------ C8
\* C8: whenever the current channel is open, exactly one heartbeat timer is
\* active, it pings that channel, and no reconnect timer is pending.
C8_ConnectedHasHeartbeat ==
    Connected => heartbeats = {wsRef} /\ reconnectTimers = {}

\* ------------------------------------------------------------------ C9
DefaultStatus == [isOnline |-> FALSE, isTyping |-> FALSE]

\* C9: after an initial_statuses push the presence map is exactly the pushed
\* snapshot: every listed user has {isOnline: pushed flag, isTyping: false},
\* every other user has no entry and getUserStatus returns the default.
C9_InitialStatusesReplaces ==
    last.type = "initial_statuses" =>
        /\ DOMAIN userStatuses = DOMAIN last.statuses
        /\ \A u \in Users :
              getUserStatus(u) =
                  IF u \in DOMAIN last.statuses
                  THEN [isOnline |-> last.statuses[u], isTyping |-> FALSE]
                  ELSE DefaultStatus

\* a snapshot has replaced a map that held an entry the snapshot does not
\* list and a typing entry that it does list
C9_Witness ==
    /\ last.type = "initial_statuses"
    /\ \E u \in DOMAIN last.prev : u \notin DOMAIN last.statuses
    /\ \E u \in DOMAIN last.prev \cap DOMAIN last.statuses :
          last.prev[u].isTyping /\ ~last.prev[u].isOnline /\ last.statuses[u]

\* ------------------------------------------------------------------ C10
\* the entries of every user other than the one the push names are unchanged
C10_Frame ==
    /\ DOMAIN userStatuses = DOMAIN last.prev \cup {last.u}
    /\ \A x \in DOMAIN last.prev \ {last.u} : userStatuses[x] = last.prev[x]

\* C10 as claimed: a user_status push sets isOnline, sets isTyping to the
\* pushed value if the push has one and otherwise keeps the user's previous
\* isTyping, and changes no other user's entry.
C10_UserStatusPreservesTyping ==
    last.type = "user_status" =>
        /\ userStatuses[last.u].isOnline = last.isOnline
        /\ userStatuses[last.u].isTyping =
              IF last.hasTyping THEN last.isTyping
              ELSE IF last.u \in DOMAIN last.prev
                   THEN last.prev[last.u].isTyping ELSE FALSE
        /\ C10_Frame

\* C10 amended: a user_status push sets isOnline, sets isTyping to the pushed
\* value if the push has one and otherwise to false, and changes no other
\* user's entry.
C10_UserStatusUpsert ==
    last.type = "user_status" =>
        /\ userStatuses[last.u].isOnline = last.isOnline
        /\ userStatuses[last.u].isTyping =
              IF last.hasTyping THEN last.isTyping ELSE FALSE
        /\ C10_Frame

\* a push without is_typing for a user who was typing, with another user's
\* entry in the map
C10_Witness ==
    /\ last.type = "user_status"
    /\ ~last.hasTyping
    /\ last.u \in DOMAIN last.prev
    /\ last.prev[last.u].isTyping
    /\ \E x \in DOMAIN last.prev : x # last.u

\* ------------------------------------------------------------------ C5
\* no channel of the hook is connecting, open or closing and no reconnect
\* is scheduled
Quiet == (\A c \in ChanIds : chan[c].st = "none") /\ reconnectTimers = {}

\* nothing is in progress: no socket exists, no reconnect is scheduled and
\* the polling loop has nothing to report
Idle ==
    /\ Quiet
    /\ token = effToken
    /\ authToken = effToken

\* C5: a close event handled while a Credential is stored stops the closed
\* channel's heartbeat and schedules a reconnect; the connect() of a
\* reconnect leaves the manager Connecting; every such close is followed by
\* a further connection attempt (unless the Credential is removed or the
\* hook unmounts first); and as long as the Credential exists the mounted
\* manager is never idle.
C5_CloseLeadsToReconnect ==
    /\ [](last.type = "close" /\ authToken # NoToken
            => /\ last.ch \notin heartbeats
               /\ \E t \in reconnectTimers : t.id = last.ch)
    /\ [](last.type = "connect" => wsRef = last.ch /\ Connecting)
    /\ (mounted /\ last.type = "close" /\ authToken # NoToken)
          ~> (last.type = "connect" \/ authToken = NoToken \/ ~mounted)
    /\ ([](authToken # NoToken)) => [](mounted => ~Idle)

\* a channel that was open with its heartbeat running has been dropped
\* while the Credential is stored
C5_Witness ==
    /\ mounted
    /\ last.type = "close"
    /\ authToken # NoToken
    /\ heartbeatIntervalRef = StaleRef
    /\ \E t \in reconnectTimers : t.id = last.ch /\ ~t.torn

\* ------------------------------------------------------------------ C6
\* C6: if the manager is Disconnected while a Credential is in the token
\* store, it eventually is Connecting (unless the Credential is removed
\* again or the hook unmounts first).
C6_CredentialLeadsToConnecting ==
    (mounted /\ Disconnected /\ authToken # NoToken)
        ~> (Connecting \/ authToken = NoToken \/ ~mounted)

\* ------------------------------------------------------------------ C7
\* C7: after the Credential is cleared the manager eventually tears down:
\* every channel is closed and no reconnect is scheduled (unless a Credential
\* is stored again or the hook unmounts first); a close event handled while
\* no Credential is stored schedules no reconnect; and the manager stays
\* that way while the Credential stays absent.
C7_ClearedLeadsToTeardown ==
    /\ (mounted /\ authToken = NoToken) ~> (Quiet \/ authToken # NoToken \/ ~mounted)
    /\ [](last.type = "close" /\ authToken = NoToken
            => \A t \in reconnectTimers : t.id # last.ch)
    /\ [][Quiet /\ authToken = NoToken /\ authToken' = NoToken => Quiet']_vars

\* ------------------------------------------------------------------ C11
TimersOf(m, u) == {t \in typingTimers : t.m = m /\ t.u = u}

\* C11: after a typing_status push with typing=true for (m, u) the flag of
\* (m, u) is true; a true flag turns false only when the expiry timer of
\* (m, u) fires or a typing=false push for (m, u) arrives; and when the
\* timer fires the flag is false and the handle of its key is gone.
C11_TypingUntilExpiry ==
    /\ [](last.type = "typing_status" /\ last.isTyping
            => isUserTypingInMatch(last.u, last.m))
    /\ [][\A m \in Matches, u \in Users :
            isUserTypingInMatch(u, m) /\ ~isUserTypingInMatch(u, m)'
                => /\ last'.type \in {"expire", "typing_status"}
                   /\ last'.m = m /\ last'.u = u
                   /\ last'.type = "typing_status" => ~last'.isTyping]_vars
    /\ [](last.type = "expire"
            => /\ ~isUserTypingInMatch(last.u, last.m)
               /\ last.key \notin DOMAIN typingTimeoutsRef
               /\ TimersOf(last.m, last.u) = {})

\* the expiry timer of a pair whose flag was true has fired
C11_Witness ==
    /\ last.type = "expire"
    /\ last.was
    /\ ~isUserTypingInMatch(last.u, last.m)

\* ------------------------------------------------------------------ C12
\* C12: no two expiry timers are ever pending for the same (m, u); after a
\* typing=true push exactly one timer is pending for (m, u), the one whose
\* handle is in typingTimeoutsRef; after a typing=false push none is.
C12_CancelAndReplace ==
    /\ \A m \in Matches, u \in Users : Cardinality(TimersOf(m, u)) <= 1
    /\ last.type = "typing_status" =>
          IF last.isTyping
          THEN /\ Cardinality(TimersOf(last.m, last.u)) = 1
               /\ \A t \in TimersOf(last.m, last.u) :
                     RefOf(typingTimeoutsRef, TypingKey(last.m, last.u)) = t.id
          ELSE TimersOf(last.m, last.u) = {}

\* a typing=true push has arrived while the timer of an earlier push for the
\* same pair was pending
C12_Witness ==
    /\ last.type = "typing_status"
    /\ last.isTyping
    /\ last.refreshed
    /\ Cardinality(TimersOf(last.m, last.u)) = 1

\* ------------------------------------------------------------------ C13
\* how often a fan-out has called cb
Invocations(calls, cb) == Cardinality({i \in DOMAIN calls : calls[i].listener = cb})

\* the push the last step has fanned out went to registry r with payload arg
FannedOut(r, arg) ==
    /\ \A cb \in Callbacks :
          Invocations(last.calls, cb) = IF cb \in Range(Registry(r)) THEN 1 ELSE 0
    /\ \A i \in DOMAIN last.calls : last.calls[i].arg = arg

\* C13: a new_message push calls every callback of the new-message registry
\* exactly once, with {match_id, message_id, sender_id} of the push, and no
\* callback that is not in that registry; message_status_update and
\* match_status_update do the same with their own registry and payload.
C13_FanOut ==
    /\ last.type = "new_message" =>
          FannedOut("message", [match_id |-> last.data.match_id,
                                message_id |-> last.data.message_id,
                                sender_id |-> last.data.sender_id])
    /\ last.type = "message_status_update" =>
          FannedOut("messageStatus", [message_id |-> last.data.message_id,
                                      status |-> last.data.status])
    /\ last.type = "match_status_update" =>
          FannedOut("matchStatus", [match_id |-> last.data.match_id,
                                    is_active |-> last.data.is_active])

\* a new_message push reached a callback while the message-status registry
\* held a callback that the new-message registry did not hold
C13_Witness ==
    /\ last.type = "new_message"
    /\ Len(last.calls) = 1
    /\ \E cb \in Range(messageStatusListenersRef) :
          cb \notin Range(messageListenersRef)

\* ------------------------------------------------------------------ C14

\* C14: after a call of the unsubscribe closure of (registry, cb) the
\* callback is out of the registry and every other member is still in it;
\* a callback enters a registry only by a subscription of that callback to
\* that registry and leaves it only by a call of an unsubscribe closure of
\* that callback and registry; and every push invokes exactly the members
\* of its registry.  So an unsubscribed callback is not invoked until it is
\* registered again and all others keep being invoked.
C14_UnsubscribeStopsDelivery ==
    /\ [](last.type = "unsubscribe"
            => last.cb \notin Range(Registry(last.reg)))
    /\ [][\A r \in RegistryNames, cb \in Callbacks :
            /\ cb \notin Range(Registry(r)) /\ cb \in Range(Registry(r)')
                  => last'.type = "subscribe" /\ last'.reg = r /\ last'.cb = cb
            /\ cb \in Range(Registry(r)) /\ cb \notin Range(Registry(r)')
                  => last'.type = "unsubscribe" /\ last'.reg = r /\ last'.cb = cb]_vars
    /\ [](last.type \in Pushes =>
            {last.calls[i].listener : i \in DOMAIN last.calls}
               = Range(Registry(PushRegistry(last.type))))

\* of two subscribers one has unsubscribed and a later push reached only the
\* other one
C14_Witness ==
    /\ last.type = "new_message"
    /\ \E i \in DOMAIN unsubscribers :
          /\ unsubscribers[i].reg = "message"
          /\ unsubscribers[i].called
          /\ unsubscribers[i].cb \notin Range(messageListenersRef)
    /\ Len(last.calls) = 1

\* ------------------------------------------------------------------ C15
\* C15: a second or later call of an unsubscribe closure changes none of the
\* three listener registries.
C15_SecondUnsubscribeNoOp ==
    [][last'.type = "unsubscribe" /\ last'.again
         => UNCHANGED <<messageListenersRef, messageStatusListenersRef,
                        matchStatusListenersRef>>]_vars

\* ------------------------------------------------------------------ C16
\* C16: a call sendTypingStatus(matchId, isTyping) transmits exactly one
\* 'typing' frame with matchId and isTyping on the current channel when that
\* channel is open at the call, and nothing otherwise; it never throws and
\* it changes nothing of the state of the manager, so nothing is kept for a
\* later transmission.
C16_SendOnlyWhenOpen ==
    [][last'.type = "sendTypingStatus" =>
         /\ UNCHANGED <<authToken, reactVars, connVars, presenceVars, writes,
                        listenerVars, clientVars, authVars>>
         /\ ~last'.threw
         /\ last'.sent =
              IF Connected
              THEN <<[ch |-> wsRef,
                      frame |-> [type |-> "typing", match_id |-> last'.matchId,
                                 is_typing |-> last'.isTyping]]>>
              ELSE <<>>]_vars

\* sendTypingStatus was called while the current channel was still
\* connecting: nothing was sent
C16_Witness ==
    /\ last.type = "sendTypingStatus"
    /\ Connecting
    /\ last.sent = <<>>

\* ------------------------------------------------------------------ C17
\* C17: a request answered with HTTP 401 leaves no token in the store, leaves
\* the location at the login route unless the path it was made from already
\* contained '/login' (then the location stays), and rejects; for every
\* method and endpoint.
C17_UnauthorizedClearsAndRedirects ==
    last.type = "apiRequest" /\ last.response.status = 401 =>
        /\ authToken = NoToken
        /\ location = IF last.from \in {LoginPath, LoginSlashPath}
                      THEN last.from ELSE LoginPath
        /\ last.threw

\* a request made with a stored token from a page other than login was
\* answered with 401
C17_Witness ==
    /\ last.type = "apiRequest"
    /\ last.response.status = 401
    /\ last.token # NoToken
    /\ last.from = UsersPath
    /\ location = LoginPath
    /\ authToken = NoToken

\* ------------------------------------------------------------------ C18
\* the first available of message field, detail field, status text, fallback
FirstAvailable(response) ==
    LET b == response.body
        has(name) == /\ b.kind = "object"
                     /\ name \in DOMAIN b.fields
                     /\ b.fields[name] # ""
    IN  CASE has("message") -> b.fields["message"]
          [] ~has("message") /\ has("detail") -> b.fields["detail"]
          [] ~has("message") /\ ~has("detail") /\ response.statusText # ""
                -> response.statusText
          [] OTHER -> "Request failed"

\* C18: every non-success response rejects with the first available of the
\* body's message field, its detail field, the status text and 'Request
\* failed'; with a status other than 401 the token store and the location
\* are as before the request.
C18_FailureMessage ==
    last.type = "apiRequest" /\ last.response.status \notin 200..299 =>
        /\ last.threw
        /\ last.message = FirstAvailable(last.response)
        /\ last.response.status # 401 =>
              authToken = last.token /\ location = last.from

\* ------------------------------------------------------------------ C19
\* lowercase words joined by single underscores
IsSnakeKey(k) ==
    /\ k # <<>>
    /\ \A i \in DOMAIN k : k[i] \in LowerCase \cup {"_"}
    /\ k[1] # "_" /\ k[Len(k)] # "_"
    /\ \A i \in 1..(Len(k) - 1) : ~(k[i] = "_" /\ k[i + 1] = "_")

\* C19 as stated: for every key of lowercase words joined by underscores,
\* toCamelCase(toSnakeCase(k)) = k.
C19_SnakeThenCamel ==
    conv.ops = <<"toSnakeCase", "toCamelCase">> /\ IsSnakeKey(conv.key)
        => conv.out = conv.key

\* C19 amended: for every key of lowercase words joined by underscores,
\* toSnakeCase(toCamelCase(k)) = k.
C19_CamelThenSnake ==
    conv.ops = <<"toCamelCase", "toSnakeCase">> /\ IsSnakeKey(conv.key)
        => conv.out = conv.key

\* a key of two words has gone through toCamelCase and then toSnakeCase
C19_Witness ==
    /\ conv.ops = <<"toCamelCase", "toSnakeCase">>
    /\ IsSnakeKey(conv.key)
    /\ \E i \in DOMAIN conv.key : conv.key[i] = "_"
    /\ conv.out = conv.key

\* ------------------------------------------------------------------ C20
\* camel casing: a lowercase letter followed by letters and digits, no
\* underscore
IsCamelKey(k) ==
    /\ k # <<>>
    /\ k[1] \in LowerCase
    /\ \A i \in DOMAIN k : k[i] \in LowerCase \cup UpperCase \cup Digits

\* C20: for every key in camel casing, with consecutive capitals and digits
\* allowed, toCamelCase(toSnakeCase(k)) = k.
C20_CamelRoundTrip ==
    conv.ops = <<"toSnakeCase", "toCamelCase">> /\ IsCamelKey(conv.key)
        => conv.out = conv.key

\* a key with two consecutive capitals and a digit has gone through
\* toSnakeCase and then toCamelCase
C20_Witness ==
    /\ conv.ops = <<"toSnakeCase", "toCamelCase">>
    /\ IsCamelKey(conv.key)
    /\ \E i \in 1..(Len(conv.key) - 1) :
          conv.key[i] \in UpperCase /\ conv.key[i + 1] \in UpperCase
    /\ \E i \in DOMAIN conv.key : conv.key[i] \in Digits
    /\ conv.out = conv.key

\* ------------------------------------------------------------------ C21
ConvertKey(op, key) ==
    IF op = "keysToCamel" THEN toCamelCase(key) ELSE toSnakeCase(key)

\* out is in with the keys of every object converted: same nesting, same
\* array lengths and order, same primitives, same number of entries
RECURSIVE SameStructure(_, _, _)
SameStructure(op, in, out) ==
    IF in = Null \/ in.kind = "prim" THEN out = in
    ELSE IF in.kind = "arr"
         THEN /\ out.kind = "arr"
              /\ Len(out.items) = Len(in.items)
              /\ \A i \in DOMAIN in.items : SameStructure(op, in.items[i], out.items[i])
    ELSE /\ out.kind = "obj"
         /\ Len(out.entries) = Len(in.entries)
         /\ \A i \in DOMAIN in.entries :
               /\ out.entries[i].key = ConvertKey(op, in.entries[i].key)
               /\ SameStructure(op, in.entries[i].value, out.entries[i].value)

\* C21: the result of keysToCamel / keysToSnake has the structure of its
\* argument: nesting, array lengths and order and primitives are kept, and
\* every object keeps its number of entries, each under the converted key.
C21_KeysPreserveStructure ==
    conv.op \in {"keysToCamel", "keysToSnake"}
        => SameStructure(conv.op, conv.value, conv.out)

\* ------------------------------------------------------------------ C22
\* C22: when a logout has completed, successfully or not, no token is in the
\* store.
C22_LogoutClearsCredential ==
    last.type = "logout" => authToken = NoToken

\* ------------------------------------------------------------------ C23
\* C23: a request built by apiRequest has an Authorization header iff a
\* token is in the store at the call, and then it is 'Bearer ' followed by
\* the stored token; a request with a body is a POST, PUT or PATCH.
C23_AuthorizationAndBody ==
    last.type = "request" =>
        /\ "Authorization" \in DOMAIN last.request.headers <=> authToken # NoToken
        /\ authToken = "A" => last.request.headers["Authorization"] = "Bearer A"
        /\ authToken = "B" => last.request.headers["Authorization"] = "Bearer B"
        /\ last.request.method \in {"GET", "DELETE"} => last.request.body = NoBody
        /\ last.request.body # NoBody =>
              last.request.method \in {"POST", "PUT", "PATCH"}

\* a DELETE was called with data while a token was stored
C23_Witness ==
    /\ last.type = "request"
    /\ last.request.method = "DELETE"
    /\ TruthyData(last.data)
    /\ last.request.body = NoBody
    /\ authToken # NoToken
    /\ "Authorization" \in DOMAIN last.request.headers

\* ------------------------------------------------------------------ C24
\* C24: a query run through the exported queryClient has made exactly one
\* network request when it settles, also when it settles as failed.
C24_NoAutomaticRetry ==
    last.type = "query_settled" => last.requests = 1

\* ------------------------------------------------------------------ C25
\* C25: while the hook is mounted, every (m, u) whose typing flag is true
\* has an expiry timer pending.
C25_TrueFlagHasTimer ==
    mounted =>
        \A m \in Matches, u \in Users :
            isUserTypingInMatch(u, m) => TimersOf(m, u) # {}

\* ------------------------------------------------------------------ C26
\* C26: a dispatch invokes every callback that was in the registry of the
\* push when the dispatch started, also when callbacks unsubscribe
\* themselves or others during the dispatch.
C26_AllSubscribersAtDispatchInvoked ==
    last.type = "dispatch" =>
        \A cb \in Range(last.before) : \E i \in DOMAIN last.calls : last.calls[i] = cb

\* ------------------------------------------------------------------ C27
\* C27 as stated: a user who has an entry in the presence map has one in
\* every later state.
C27_EntriesNeverDeleted ==
    [][\A u \in Users : u \in DOMAIN userStatuses => u \in DOMAIN userStatuses']_vars

\* C27 amended: an entry leaves the presence map only by an
\* initial_statuses push that does not list its user; user_status and
\* typing_status pushes, closes and reconnects delete nothing.
C27_EntriesDeletedOnlyBySnapshot ==
    [][\A u \in Users :
          u \in DOMAIN userStatuses /\ u \notin DOMAIN userStatuses'
              => last'.type = "initial_statuses" /\ u \notin DOMAIN last'.statuses]_vars

\* the channel was lost and connect() has run again while the presence map
\* held entries and a typing timer was pending
C27_Witness ==
    /\ last.type = "connect"
    /\ DOMAIN userStatuses = Users
    /\ typingTimers # {}

\* ------------------------------------------------------------------ C28
\* C28: a typing_status push for one (m, u) changes neither the flag nor the
\* pending expiry timer of any other pair, also for identifiers that
\* contain '-'.
C28_PairsIndependent ==
    [][last'.type = "typing_status" =>
         \A m \in DashMatches, u \in DashUsers :
             <<m, u>> # <<last'.m, last'.u>> =>
                 /\ isUserTypingInMatch(u, m)' = isUserTypingInMatch(u, m)
                 /\ TimersOf(m, u)' = TimersOf(m, u)]_vars

\* ------------------------------------------------------------------ C29
\* C29: a channel that has just been created carries the token that is in
\* the token store.
C29_ConnectWithStoredToken ==
    last.type = "connect" => chan[last.ch].tok = authToken

\* ------------------------------------------------------------------ C30
\* C30: whenever isAuthenticated is true the held user is an admin; a login
\* answered with a user who is not an admin fails and leaves no token in
\* the store; and a login step puts a token into the store only when the
\* login resolved with an admin.
C30_AdminOnlySession ==
    /\ [](isAuthenticated => user.role = "admin")
    /\ [](last.type = "login" /\ last.response.status = 200 /\ last.response.parsed
             /\ last.response.role # "admin"
            => last.failed /\ authToken = NoToken)
    /\ [][last'.type = "login" /\ authToken' # NoToken /\ authToken' # authToken
            => /\ last'.response.status = 200 /\ last'.response.parsed
               /\ last'.response.role = "admin"
               /\ authToken' = last'.response.token]_vars

\* an admin is logged in and a later login, answered with a user who is not
\* an admin, has failed
C30_Witness ==
    /\ isAuthenticated
    /\ last.type = "login"
    /\ last.response.status = 200 /\ last.response.parsed
    /\ last.response.role = "user"
    /\ last.response.token # NoToken
    /\ last.failed
    /\ authToken = NoToken

====
